---- MODULE Spec2Model ----
(***************************************************************************)
(* Remote Session Multiplexer of the RDE Control Center.                   *)
(*                                                                         *)
(* The repository holds two builds of the same core: the Electron main     *)
(* process (src/unnamed/part_001, "main") and the Express/WebSocket        *)
(* server (src/unnamed/part_006, "server").  The variable impl selects the *)
(* build; every handler is modelled for both.                              *)
(*                                                                         *)
(* Text is a sequence of one-character strings.  One step of the model is  *)
(* one run-to-completion task of the JavaScript event loop: a request      *)
(* handler, a stream 'data' callback, a timer callback or a process event  *)
(* callback, followed by the promise continuations it makes runnable.      *)
(***************************************************************************)
EXTENDS Integers, Sequences, FiniteSets, TLC

\* ---------------------------------------------------------------- bounds
MaxProc == 2
MaxCmd == 2
MaxConnect == 2
MaxData == 2
MaxStream == 2
MaxStreamData == 2

\* chunks of session output in the runs that cut a line in two
MaxPieces == 3

\* ------------------------------------------------------ program constants
WelcomeBufferCap == 10000
WelcomeBufferKeep == 5000

NULL == 0

\* ------------------------------------------------------------------ text
WS == {" ", "\t", "\r", "\n"}

UpperSeq == <<"A","B","C","D","E","F","G","H","I","J","K","L","M",
              "N","O","P","Q","R","S","T","U","V","W","X","Y","Z">>

LowerSeq == <<"a","b","c","d","e","f","g","h","i","j","k","l","m",
              "n","o","p","q","r","s","t","u","v","w","x","y","z">>

ToLowerChar(c) ==
  IF \E i \in 1..26 : UpperSeq[i] = c
  THEN LowerSeq[CHOOSE i \in 1..26 : UpperSeq[i] = c]
  ELSE c

toLowerCase(t) == [i \in 1..Len(t) |-> ToLowerChar(t[i])]

includes(t, tok) ==
  \E i \in 0..(Len(t) - Len(tok)) : SubSeq(t, i + 1, i + Len(tok)) = tok

\* String.prototype.slice(-n): the last n characters
sliceLast(t, n) == IF Len(t) <= n THEN t ELSE SubSeq(t, Len(t) - n + 1, Len(t))

RECURSIVE split(_)
\* String.prototype.split('\n'): always at least one (possibly empty) piece
split(t) ==
  IF \A i \in 1..Len(t) : t[i] # "\n" THEN <<t>>
  ELSE LET k == CHOOSE i \in 1..Len(t) :
                  t[i] = "\n" /\ \A j \in 1..(i - 1) : t[j] # "\n"
       IN <<SubSeq(t, 1, k - 1)>> \o split(SubSeq(t, k + 1, Len(t)))

RECURSIVE trim(_)
trim(t) ==
  IF t = <<>> THEN t
  ELSE IF Head(t) \in WS THEN trim(Tail(t))
  ELSE IF t[Len(t)] \in WS THEN trim(SubSeq(t, 1, Len(t) - 1))
  ELSE t

RECURSIVE join(_)
\* Array.prototype.join('\n')
join(ls) ==
  IF ls = <<>> THEN <<>>
  ELSE IF Len(ls) = 1 THEN ls[1]
  ELSE ls[1] \o <<"\n">> \o join(Tail(ls))

\* line.match(/[#$]\s*$/)
isPrompt(line) ==
  \E i \in 1..Len(line) :
     /\ line[i] \in {"#", "$"}
     /\ \A j \in (i + 1)..Len(line) : line[j] \in WS

WelcomeToken == <<"w","e","l","c","o","m","e">>

StatusToken == <<"s","u","p","e","r","v","i","s","o","r","c","t","l"," ",
                 "s","t","a","t","u","s">>

\* ---------------------------------------------------------------- inputs
CmdEcho == <<"e","c","h","o"," ","o","k">>

CmdStatus == <<"s","u","d","o"," ">> \o StatusToken \o <<" ","a","l","l">>

CommandTexts == {CmdEcho, CmdStatus}

ChunkPrompt == <<"$"," ">>

ChunkWelcome == <<"W","e","l","c","o","m","e","\n">>

ChunkOkPrompt == <<"o","k","\n","$"," ">>

Chunks == {ChunkWelcome, ChunkPrompt, ChunkOkPrompt}

\* five content lines of a status listing, no prompt line
FiveLines == <<<<"a"," ","U","P">>, <<"b"," ","U","P">>, <<"c"," ","U","P">>,
               <<"d"," ","U","P">>, <<"e"," ","U","P">>>>

ChunkFive == join(FiveLines) \o <<"\n">>

\* the line "ok" and the prompt, cut after the first character
ChunkO == <<"o">>

ChunkKPrompt == <<"k","\n","$"," ">>

\* a prompt line, a further line and a second prompt line in one chunk
ChunkTwoPrompts == <<"$"," ","\n","x","\n","$"," ">>

PieceChunks == {ChunkO, ChunkKPrompt, ChunkOkPrompt, ChunkTwoPrompts}

Impls == {"main", "server"}

\* log stream inputs
FileA == <<"/","a">>

FileB == <<"/","b">>

FileLists == {<<FileA>>, <<FileA, FileB>>}

Letters == <<"a","b","c","d","e","f","g","h","i","j">>

\* the list of the first n log files: /a, /b, ...
ManyFiles(n) == [i \in 1..n |-> <<"/", Letters[i]>>]

\* the file lists of the start requests: one, two, nine, ten files
StartLists == {ManyFiles(1), ManyFiles(2), ManyFiles(9), ManyFiles(10)}

Modes == {"last", "follow"}

\* the exit code handed to the 'exit' listener; "null" when a signal ended
\* the process
ExitCodes == {"0", "1", "null"}

\* "==> file <==", the line tail prints before the lines of a file
Header(f) == <<"=","=",">"," ">> \o f \o <<" ","<","=","=">>

Ln(t) == t \o <<"\n">>

Line1 == <<"l","1">>

Line2 == <<"l","2">>

Line3 == <<"l","3">>

Line4 == <<"l","4">>

Line5 == <<"l","5">>

\* header(A), three content lines, header(B), two content lines
TailExample ==
  Ln(Header(FileA)) \o Ln(Line1) \o Ln(Line2) \o Ln(Line3) \o
  Ln(Header(FileB)) \o Ln(Line4) \o Ln(Line5)

\* the same output cut in two inside the second header line
TailCut == Len(Ln(Header(FileA)) \o Ln(Line1) \o Ln(Line2) \o Ln(Line3)) + Len(FileA)

TailHead == SubSeq(TailExample, 1, TailCut)

TailRest == SubSeq(TailExample, TailCut + 1, Len(TailExample))

TailChunks == {TailExample, TailHead, TailRest}

\* greeting inputs: the token in mixed case cut across two chunks, and one
\* chunk that holds the token followed by more text than the buffer cap
ChunkWEL == <<"W","E","L">>

ChunkCome == <<"c","O","m","e","\n">>

Filler(n) == [i \in 1..n |-> "x"]

ChunkBanner == <<"W","e","l","c","o","m","e"," ">> \o Filler(WelcomeBufferCap)

GreetChunks == {ChunkWEL, ChunkCome, ChunkPrompt, ChunkBanner}

\* ----------------------------------------------------------------- state
VARIABLES
  impl,                \* which build runs
  currentTarget,       \* "null" = disconnected, "" = connected
  rdeProcess,          \* NULL or the index in procs of the session process
  commandQueue,        \* sequence of command ids waiting
  isExecutingCommand,
  commandOutputs,      \* Map commandId -> captured stdout lines
  commandCounter,
  connectionResolve,   \* NULL or the connect call whose resolver is stored
  welcomeBuffer,
  procs,               \* every session process spawned so far
  cmds,                \* every command that got an id: tracker + promise
  timers,              \* pending setTimeout callbacks
  connects,            \* outcome of every connect call
  stdinLog,            \* what was written to session inputs, in order
  emitted,             \* events published by the last step, in order
  lastOp,              \* the last step taken and its reply to the caller
  crashed,             \* the server process died of an uncaught exception
  nData,               \* number of stdout chunks delivered so far
  logStreams,          \* Map streamId -> [process, files, mode, active]
  streamProcs,         \* every log stream process spawned so far
  streamLog,           \* every logs/line and logs/stopped event published
  outputLog            \* every command/output event published

vars == <<impl, currentTarget, rdeProcess, commandQueue, isExecutingCommand,
          commandOutputs, commandCounter, connectionResolve, welcomeBuffer,
          procs, cmds, timers, connects, stdinLog, emitted, lastOp, crashed,
          nData, logStreams, streamProcs, streamLog, outputLog>>

\* The whole state as one record, so that a handler is a function on states.
St ==
  [impl |-> impl, currentTarget |-> currentTarget, rdeProcess |-> rdeProcess,
   commandQueue |-> commandQueue, isExecutingCommand |-> isExecutingCommand,
   commandOutputs |-> commandOutputs, commandCounter |-> commandCounter,
   connectionResolve |-> connectionResolve, welcomeBuffer |-> welcomeBuffer,
   procs |-> procs, cmds |-> cmds, timers |-> timers, connects |-> connects,
   stdinLog |-> stdinLog, emitted |-> <<>>, lastOp |-> lastOp,
   crashed |-> crashed, nData |-> nData, logStreams |-> logStreams,
   streamProcs |-> streamProcs, streamLog |-> streamLog,
   outputLog |-> outputLog, threw |-> FALSE]

Install(s) ==
  /\ impl' = s.impl
  /\ currentTarget' = s.currentTarget
  /\ rdeProcess' = s.rdeProcess
  /\ commandQueue' = s.commandQueue
  /\ isExecutingCommand' = s.isExecutingCommand
  /\ commandOutputs' = s.commandOutputs
  /\ commandCounter' = s.commandCounter
  /\ connectionResolve' = s.connectionResolve
  /\ welcomeBuffer' = s.welcomeBuffer
  /\ procs' = s.procs
  /\ cmds' = s.cmds
  /\ timers' = s.timers
  /\ connects' = s.connects
  /\ stdinLog' = s.stdinLog
  /\ emitted' = s.emitted
  /\ lastOp' = s.lastOp
  /\ crashed' = s.crashed
  /\ nData' = s.nData
  /\ logStreams' = s.logStreams
  /\ streamProcs' = s.streamProcs
  /\ streamLog' = s.streamLog
  /\ outputLog' = s.outputLog

\* --------------------------------------------------------- small helpers
Emit(s, e) ==
  [s EXCEPT !.emitted = Append(@, e),
            !.outputLog = IF e.ch = "command/output" THEN Append(@, e) ELSE @,
            !.streamLog = IF e.ch \in {"logs/line", "logs/stopped"}
                          THEN Append(@, e) ELSE @]

StatusEvent(st) == [ch |-> "rde/status", state |-> st, id |-> 0, text |-> <<>>]

OutputEvent(c, t) == [ch |-> "command/output", state |-> "stdout", id |-> c, text |-> t]

\* An uncaught TypeError (property access on a null rdeProcess).  It ends the
\* running callback; the server build has no handler for it and dies.
Throw(s) ==
  IF s.impl = "server" THEN [s EXCEPT !.threw = TRUE, !.crashed = TRUE]
  ELSE [s EXCEPT !.threw = TRUE]

MapSet(m, c, v) == [x \in (DOMAIN m) \cup {c} |-> IF x = c THEN v ELSE m[x]]

MapDelete(m, c) == [x \in (DOMAIN m) \ {c} |-> m[x]]

EmptyMap == [x \in {} |-> <<>>]

Timer(kind, id) == [kind |-> kind, id |-> id]

\* const output = commandOutputs.get(id); output ? output.stdout.join('\n') : ''
fullOutput(s, c) ==
  IF c \in DOMAIN s.commandOutputs THEN join(s.commandOutputs[c]) ELSE <<>>

\* a result whose exit code says whether anything was captured
resolveCommandByOutput(s, c, out, trig) ==
  [s EXCEPT !.cmds[c] =
     IF @.promise = "pending"
     THEN [@ EXCEPT !.promise = "resolved", !.state = "Completed",
                    !.output = out, !.exitCode = IF out = <<>> THEN 1 ELSE 0,
                    !.trigger = trig, !.settles = @ + 1]
     ELSE [@ EXCEPT !.settles = @ + 1]]

\* tracker.resolve({ exitCode: 0, output }): settles a promise once only
resolveCommand(s, c, out, trig) ==
  [s EXCEPT !.cmds[c] =
     IF @.promise = "pending"
     THEN [@ EXCEPT !.promise = "resolved", !.state = "Completed",
                    !.output = out, !.exitCode = 0, !.trigger = trig,
                    !.settles = @ + 1]
     ELSE [@ EXCEPT !.settles = @ + 1]]

\* reject(new Error(msg))
rejectCommand(s, c, msg) ==
  [s EXCEPT !.cmds[c] =
     IF @.promise = "pending"
     THEN [@ EXCEPT !.promise = "rejected", !.state = "Failed",
                    !.error = msg, !.trigger = "SessionClosed",
                    !.settles = @ + 1]
     ELSE [@ EXCEPT !.settles = @ + 1]]

RECURSIVE rejectAll(_, _, _)
\* commandQueue.forEach(({ reject }) => reject(err))
rejectAll(s, q, msg) ==
  IF q = <<>> THEN s ELSE rejectAll(rejectCommand(s, Head(q), msg), Tail(q), msg)

\* ------------------------------------------------------- command executor
RECURSIVE processNextCommand(_)
RECURSIVE completeCommand(_, _, _)
RECURSIVE checkOutputActivity(_, _)

\* a release of the Active slot that does not look at the queue
finishCurrentNoNext(s, c, cleared, trig) ==
  resolveCommand([s EXCEPT !.commandOutputs = MapDelete(@, c),
                           !.isExecutingCommand = FALSE,
                           !.procs[s.rdeProcess].cur = NULL,
                           !.timers = @ \ cleared],
                 c, fullOutput(s, c), trig)

\* The release of the Active slot shared by every completion path:
\* commandOutputs.delete, isExecutingCommand = false, _currentCommand = null,
\* the clearTimeout calls named by cleared, resolve, processNextCommand().
finishCurrent(s, c, cleared, trig) ==
  LET out == fullOutput(s, c)
      s1 == [s EXCEPT !.commandOutputs = MapDelete(@, c),
                      !.isExecutingCommand = FALSE,
                      !.procs[s.rdeProcess].cur = NULL,
                      !.timers = @ \ cleared]
  IN processNextCommand(resolveCommand(s1, c, out, trig))

\* server: completeCommand closure of the tracker of command c
completeCommand(s, c, trig) ==
  IF s.rdeProcess = NULL THEN Throw(s)
  ELSE IF s.procs[s.rdeProcess].cur = c
  THEN finishCurrent(s, c, {Timer("hard", c), Timer("output", c)}, trig)
  ELSE s

InactivityMs == 1000

\* an inactivity check that completes its command whatever was captured
checkOutputActivityEager(s, c) ==
  IF s.rdeProcess = NULL THEN Throw(s)
  ELSE finishCurrent(s, c, {Timer("hard", c), Timer("output", c)},
                     "InactivityTimeout")

\* server: checkOutputActivity closure of the tracker of command c.
\* cmds[c].idle is Date.now() - lastOutputTime in milliseconds.
checkOutputActivity(s, c) ==
  IF s.rdeProcess = NULL THEN Throw(s)
  ELSE IF s.procs[s.rdeProcess].cur = c
  THEN IF /\ s.cmds[c].idle >= InactivityMs
          /\ c \in DOMAIN s.commandOutputs
          /\ Len(s.commandOutputs[c]) > 0
       THEN completeCommand(s, c, "InactivityTimeout")
       ELSE [s EXCEPT !.timers = @ \cup {Timer("output", c)}]
  ELSE s

processNextCommand(s) ==
  IF Len(s.commandQueue) = 0 \/ s.isExecutingCommand THEN s
  ELSE LET c == Head(s.commandQueue)
           s1 == [s EXCEPT !.commandQueue = Tail(@),
                           !.isExecutingCommand = TRUE,
                           !.commandOutputs = MapSet(@, c, <<>>),
                           !.cmds[c].earlyScheduled = FALSE,
                           !.cmds[c].idle = 0]
           \* the server build starts the inactivity check before the
           \* tracker is stored in rdeProcess._currentCommand
           s2 == IF s.impl = "server" THEN checkOutputActivity(s1, c) ELSE s1
           s3 == [s2 EXCEPT !.timers = @ \cup {Timer("hard", c)}]
       IN IF s3.threw \/ s3.rdeProcess = NULL THEN Throw(s3)
          ELSE [s3 EXCEPT !.procs[s3.rdeProcess].cur = c,
                          !.cmds[c].state = "Active",
                          !.stdinLog = Append(@, [proc |-> s3.rdeProcess,
                                          cmd |-> c,
                                          text |-> s.cmds[c].text \o <<"\n">>])]

\* executeInRDESession that writes the command at once, busy or not
executeInRDESessionEager(s, c, text) ==
  LET new == [text |-> text, state |-> "Active", promise |-> "pending",
              output |-> <<>>, exitCode |-> -1, error |-> "", trigger |-> "",
              settles |-> 0, proc |-> s.rdeProcess, earlyScheduled |-> FALSE,
              idle |-> 0, graceStarts |-> 0, heard |-> <<>>]
      s0 == [s EXCEPT !.cmds = Append(@, new)]
  IN IF s.rdeProcess = NULL
     THEN [s0 EXCEPT !.cmds[c].promise = "rejected", !.cmds[c].state = "Failed",
                     !.cmds[c].error = "RDE session not established",
                     !.cmds[c].settles = 1]
     ELSE [s0 EXCEPT !.isExecutingCommand = TRUE,
                     !.commandOutputs = MapSet(@, c, <<>>),
                     !.timers = @ \cup {Timer("hard", c)},
                     !.procs[s.rdeProcess].cur = c,
                     !.stdinLog = Append(@, [proc |-> s.rdeProcess, cmd |-> c,
                                             text |-> text \o <<"\n">>])]

\* executeInRDESession, after the caller generated the id c
executeInRDESession(s, c, text) ==
  LET new == [text |-> text, state |-> "Queued", promise |-> "pending",
              output |-> <<>>, exitCode |-> -1, error |-> "", trigger |-> "",
              settles |-> 0, proc |-> s.rdeProcess, earlyScheduled |-> FALSE,
              idle |-> 0, graceStarts |-> 0, heard |-> <<>>]
      s0 == [s EXCEPT !.cmds = Append(@, new)]
  IN IF s.rdeProcess = NULL
     THEN [s0 EXCEPT !.cmds[c].promise = "rejected", !.cmds[c].state = "Failed",
                     !.cmds[c].error = "RDE session not established",
                     !.cmds[c].settles = 1]
     ELSE LET s1 == [s0 EXCEPT !.commandQueue = Append(@, c)]
          IN IF ~s1.isExecutingCommand THEN processNextCommand(s1) ELSE s1

\* ----------------------------------------------------------------- session
\* a teardown that kills the process but keeps the executor state
closeRDESessionKeepQueue(s) ==
  LET s1 == IF s.rdeProcess # NULL
            THEN [s EXCEPT !.procs[s.rdeProcess].stdinEnded = TRUE,
                           !.procs[s.rdeProcess].killed = TRUE,
                           !.rdeProcess = NULL]
            ELSE s
  IN [s1 EXCEPT !.currentTarget = "null",
                !.welcomeBuffer = <<>>,
                !.connectionResolve = NULL]

closeRDESession(s) ==
  LET s1 == IF s.rdeProcess # NULL
            THEN [s EXCEPT !.procs[s.rdeProcess].stdinEnded = TRUE,
                           !.procs[s.rdeProcess].killed = TRUE,
                           !.rdeProcess = NULL]
            ELSE s
  IN [s1 EXCEPT !.commandQueue = <<>>,
                !.isExecutingCommand = FALSE,
                !.currentTarget = "null",
                !.welcomeBuffer = <<>>,
                !.connectionResolve = NULL]

NewProc == [st |-> "running", cur |-> NULL, killed |-> FALSE, stdinEnded |-> FALSE]

createRDESessionAlways(s) ==
  [s EXCEPT !.procs = Append(@, NewProc),
            !.rdeProcess = Len(s.procs) + 1,
            !.commandOutputs = EmptyMap,
            !.welcomeBuffer = <<>>]

createRDESession(s) ==
  IF s.rdeProcess # NULL THEN s
  ELSE [s EXCEPT !.procs = Append(@, NewProc),
                 !.rdeProcess = Len(s.procs) + 1,
                 !.commandOutputs = EmptyMap,
                 !.welcomeBuffer = <<>>]

\* continuation of `await welcomePromise` of connect call k, promise resolved
connectResolved(s, k) ==
  Emit([s EXCEPT !.currentTarget = "", !.connects[k] = "success"],
       StatusEvent("connected"))

\* continuation of connect call k when welcomePromise rejects: both catch blocks
connectRejected(s, k) ==
  LET s1 == [s EXCEPT !.connectionResolve = NULL]
      s2 == IF s.impl = "main" \/ s1.rdeProcess # NULL
            THEN closeRDESession(s1) ELSE s1
  IN Emit([s2 EXCEPT !.connectionResolve = NULL, !.connects[k] = "failure"],
          StatusEvent("error"))

\* ------------------------------------------------- session stdout handler
\* an early completion that drops the captured lines before it joins them
earlyCompleteEmpty(s, c) ==
  IF s.rdeProcess = NULL THEN Throw(s)
  ELSE IF s.procs[s.rdeProcess].cur = c
  THEN finishCurrent([s EXCEPT !.commandOutputs = MapDelete(@, c)], c,
         IF s.impl = "server" THEN {Timer("hard", c)} ELSE {}, "EarlyPolicy")
  ELSE s

\* setTimeout callback scheduled by the early-completion policy for command c
earlyComplete(s, c) ==
  IF s.rdeProcess = NULL THEN Throw(s)
  ELSE IF s.procs[s.rdeProcess].cur = c
  THEN finishCurrent(s, c,
         IF s.impl = "server" THEN {Timer("hard", c)} ELSE {}, "EarlyPolicy")
  ELSE s

\* a scheduling that never looks at _earlyCompleteScheduled
scheduleEarlyAlways(s, c) ==
  IF includes(s.cmds[c].text, StatusToken)
  THEN [s EXCEPT !.cmds[c].earlyScheduled = TRUE,
                 !.cmds[c].graceStarts = @ + 1,
                 !.timers = @ \cup {Timer("early", c)}]
  ELSE s

\* the early-completion scheduling made for a stored content line;
\* graceStarts counts the setTimeout calls made for the command
scheduleEarly(s, c) ==
  IF includes(s.cmds[c].text, StatusToken) /\ ~s.cmds[c].earlyScheduled
  THEN [s EXCEPT !.cmds[c].earlyScheduled = TRUE,
                 !.cmds[c].graceStarts = @ + 1,
                 !.timers = @ \cup {Timer("early", c)}]
  ELSE s

\* a capture that stores the line and publishes nothing
storeLineSilent(s, c, line) ==
  [s EXCEPT !.commandOutputs[c] = Append(@, trim(line))]

\* output.stdout.push(line.trim()) and the command/output event
storeLine(s, c, line) ==
  Emit([s EXCEPT !.commandOutputs[c] = Append(@, trim(line))],
       OutputEvent(c, trim(line)))

RECURSIVE forEachOutput(_, _, _)
\* main: commandOutputs.forEach over the ids in ids, in insertion order
forEachOutput(s, ids, line) ==
  IF ids = {} \/ s.threw THEN s
  ELSE LET c == CHOOSE x \in ids : \A y \in ids : x <= y
           s1 == IF trim(line) # <<>> /\ ~isPrompt(line)
                 THEN LET t == storeLine(s, c, line)
                      IN IF t.rdeProcess = NULL THEN Throw(t)
                         ELSE IF t.procs[t.rdeProcess].cur = c
                         THEN scheduleEarly(t, c) ELSE t
                 ELSE s
       IN forEachOutput(s1, ids \ {c}, line)

\* a stdout handler that takes no line for a prompt
promptCompleteOff(s, line) == s

\* "If we see a prompt, complete the current command"
promptComplete(s, line) ==
  IF ~isPrompt(line) THEN s
  ELSE IF s.rdeProcess = NULL THEN Throw(s)
  ELSE LET c == s.procs[s.rdeProcess].cur
       IN IF c = NULL THEN s
          ELSE finishCurrent(s, c,
                 IF s.impl = "server"
                 THEN {Timer("hard", c), Timer("output", c)}
                 ELSE {Timer("hard", c)}, "PromptMatch")

\* main: body of lines.forEach for one line
processLineMain(s, line) ==
  LET s1 == forEachOutput(s, DOMAIN s.commandOutputs, line)
  IN IF s1.threw THEN s1 ELSE promptComplete(s1, line)

\* server: body of lines.forEach for one line
processLineServer(s, line) ==
  IF s.rdeProcess = NULL THEN Throw(s)
  ELSE LET c == s.procs[s.rdeProcess].cur
           s1 == IF c = NULL THEN s
                 ELSE LET t == IF c \in DOMAIN s.commandOutputs THEN s
                               ELSE [s EXCEPT !.commandOutputs = MapSet(@, c, <<>>)]
                      IN IF trim(line) # <<>> /\ ~isPrompt(line)
                         THEN scheduleEarly(
                                storeLine([t EXCEPT !.cmds[c].idle = 0], c, line), c)
                         ELSE t
       IN promptComplete(s1, line)

RECURSIVE processLines(_, _)
processLines(s, lines) ==
  IF lines = <<>> \/ s.threw THEN s
  ELSE processLines(IF s.impl = "main" THEN processLineMain(s, Head(lines))
                    ELSE processLineServer(s, Head(lines)),
                    Tail(lines))

\* welcomeBuffer += text, the cap, and the greeting test; yields the state and
\* the connect call whose promise the handler resolved (NULL if none)
accumulateWelcome(s, text) ==
  LET b0 == s.welcomeBuffer \o text
      b1 == IF Len(b0) > WelcomeBufferCap THEN sliceLast(b0, WelcomeBufferKeep) ELSE b0
  IN IF s.connectionResolve # NULL /\ includes(toLowerCase(b1), WelcomeToken)
     THEN [s EXCEPT !.welcomeBuffer = <<>>, !.connectionResolve = NULL]
     ELSE [s EXCEPT !.welcomeBuffer = b1]

\* the greeting test of the stdout handler succeeds for this chunk
welcomeDetected(s, text) ==
  accumulateWelcome(s, text).connectionResolve # s.connectionResolve

\* rdeProcess.stdout.on('data'), then the continuation of a resolved connect
onStdout(s, text) ==
  LET k == IF welcomeDetected(s, text) THEN s.connectionResolve ELSE NULL
      \* heard: the session output received while the command held the slot
      s0 == IF s.rdeProcess # NULL /\ s.procs[s.rdeProcess].cur # NULL
            THEN [s EXCEPT !.cmds[s.procs[s.rdeProcess].cur].heard = @ \o text]
            ELSE s
      s1 == processLines(accumulateWelcome(s0, text), split(text))
  IN IF k # NULL /\ ~s1.crashed THEN connectResolved(s1, k) ELSE s1

\* ------------------------------------------------- process exit and error
\* body shared by rdeProcess.on('exit') and rdeProcess.on('error')
onProcessGone(s, msg, status) ==
  LET old == s.rdeProcess
      k == IF s.impl = "server" THEN s.connectionResolve ELSE NULL
      s1 == [s EXCEPT !.rdeProcess = NULL, !.currentTarget = "null",
                      !.connectionResolve = IF s.impl = "server" THEN NULL ELSE @]
      s2 == rejectAll(s1, s1.commandQueue, msg)
      s3 == [s2 EXCEPT !.commandQueue = <<>>,
                       !.commandOutputs = EmptyMap,
                       !.isExecutingCommand = FALSE,
                       !.procs = IF old # NULL
                                 THEN [@ EXCEPT ![old].cur = NULL] ELSE @]
      s4 == Emit(s3, StatusEvent(status))
  IN IF k # NULL THEN connectResolved(s4, k) ELSE s4

\* -------------------------------------------------------- request handlers
\* rde/connect, POST /api/rde/connect: the part that runs before the await
connect(s) ==
  LET k == Len(s.connects) + 1
  IN IF s.impl = "server" /\ s.currentTarget # "null" /\ s.rdeProcess # NULL
     THEN [s EXCEPT !.connects = Append(@, "success")]
     ELSE LET s1 == createRDESession(s)
          IN [s1 EXCEPT !.connectionResolve = k,
                        !.welcomeBuffer = <<>>,
                        !.timers = @ \cup {Timer("connect", k)},
                        !.connects = Append(@, "waiting")]

\* the 15 s setTimeout callback of connect call k
connectTimeout(s, k) ==
  IF s.connectionResolve = k
  THEN connectRejected([s EXCEPT !.connectionResolve = NULL,
                                 !.welcomeBuffer = <<>>], k)
  ELSE s

StoppedEvent(id, reason) ==
  [ch |-> "logs/stopped", state |-> reason, id |-> id, text |-> <<>>]

RECURSIVE stopAllStreams(_, _)
\* main: logStreams.forEach of rde/disconnect over the stream ids in ids
stopAllStreams(s, ids) ==
  IF ids = {} THEN s
  ELSE LET id == CHOOSE x \in ids : \A y \in ids : x <= y
           st == s.logStreams[id]
           s1 == IF st.active /\ st.process # NULL
                 THEN Emit([s EXCEPT !.streamProcs[st.process].killed = TRUE],
                           StoppedEvent(id, "disconnected"))
                 ELSE s
       IN stopAllStreams(s1, ids \ {id})

\* rde/disconnect, POST /api/rde/disconnect
disconnect(s) ==
  LET s1 == IF s.impl = "main"
            THEN [stopAllStreams(s, DOMAIN s.logStreams) EXCEPT !.logStreams = EmptyMap]
            ELSE s
  IN Emit(closeRDESession(s1), StatusEvent("disconnected"))

\* command/execute without the connected check
executeUnchecked(s, text) ==
  executeInRDESession([s EXCEPT !.commandCounter = @ + 1],
                      s.commandCounter + 1, text)

\* command/execute, POST /api/command/execute, up to the await
execute(s, text) ==
  IF s.currentTarget = "null" THEN s
  ELSE executeInRDESession([s EXCEPT !.commandCounter = @ + 1],
                           s.commandCounter + 1, text)

\* a fallback timer that completes its command without looking at the slot
hardTimeoutNoGuard(s, c) ==
  IF s.rdeProcess = NULL THEN Throw(s)
  ELSE finishCurrent(s, c, {}, "HardTimeout")

\* a fallback timer that completes whichever command holds the slot
hardTimeoutAnySlot(s, c) ==
  IF s.rdeProcess = NULL THEN Throw(s)
  ELSE IF s.procs[s.rdeProcess].cur # NULL
  THEN finishCurrent(s, s.procs[s.rdeProcess].cur, {}, "HardTimeout")
  ELSE s

\* the 5 s / 30 s fallback setTimeout callback of command c
hardTimeout(s, c) ==
  IF s.rdeProcess = NULL THEN Throw(s)
  ELSE IF s.procs[s.rdeProcess].cur = c
  THEN IF s.impl = "server" THEN completeCommand(s, c, "HardTimeout")
       ELSE finishCurrent(s, c, {}, "HardTimeout")
  ELSE s

\* ------------------------------------------------------------ log streams
LineEvent(id, file, line) ==
  [ch |-> "logs/line", state |-> file, id |-> id, text |-> line]

\* spawn(rdePath, ['ssh']) of logs/tail with the closure variables streamId,
\* files, buffer and currentFile, and the text fed to its stdout so far
RECURSIVE joinWith(_, _)
\* Array.prototype.join(sep)
joinWith(ls, sep) ==
  IF ls = <<>> THEN <<>>
  ELSE IF Len(ls) = 1 THEN ls[1]
  ELSE ls[1] \o sep \o joinWith(Tail(ls), sep)

\* `${lines || 200}` of a request that gives no line count
DefaultLines == <<"2","0","0">>

\* files.length >= 10
GlobThreshold == 10

TailF == <<"t","a","i","l"," ","-","f"," ">>

TailN == <<"t","a","i","l"," ","-","n"," ">> \o DefaultLines \o <<" ">>

GlobRead ==
  TailF \o <<"/","o","p","t","/","f","u","n","d","b","o","x","/","l","o","g","s",
             "/","*",".","l","o","g">>

\* the command line logs/tail writes to the input of the stream process
tailCommand(build, files, mode) ==
  IF build = "main"
  THEN IF mode = "last"
       THEN IF Len(files) = 1 THEN TailN \o files[1]
            ELSE <<"(">> \o joinWith([i \in DOMAIN files |-> TailN \o files[i]],
                                     <<" ","&","&"," ">>) \o <<")">>
       ELSE IF Len(files) >= GlobThreshold THEN GlobRead
            ELSE IF Len(files) = 1 THEN TailF \o files[1]
            ELSE TailF \o joinWith(files, <<" ">>)
  ELSE IF mode = "last"
       THEN IF Len(files) = 1 THEN TailN \o files[1]
            ELSE TailN \o joinWith(files, <<" ">>)
       ELSE IF Len(files) = 1 THEN TailF \o files[1]
            ELSE TailF \o joinWith(files, <<" ">>)

NewStreamProc(id, files, mode, command) ==
  [st |-> "running", killed |-> FALSE, id |-> id, files |-> files,
   mode |-> mode, stdin |-> command \o <<"\n">>,
   buffer |-> <<>>, currentFile |-> files[1], fed |-> <<>>, nfed |-> 0]

\* generateStreamId() of main is unique; `stream-${Date.now()}` of server
\* repeats the previous id when the clock did not advance (tick = FALSE)
streamIdFor(s, tick) ==
  IF s.impl = "server" /\ ~tick /\ Len(s.streamProcs) > 0
  THEN s.streamProcs[Len(s.streamProcs)].id
  ELSE Len(s.streamProcs) + 1

\* logs/tail without the connected check
startTailUnchecked(s, files, mode, tick) ==
  LET id == streamIdFor(s, tick)
      p == Len(s.streamProcs) + 1
  IN [s EXCEPT !.streamProcs = Append(@, NewStreamProc(id, files, mode,
                                            tailCommand(s.impl, files, mode))),
               !.logStreams = MapSet(@, id, [process |-> p, files |-> files,
                                             mode |-> mode, active |-> TRUE])]

\* logs/tail, POST /api/logs/tail
startTail(s, files, mode, tick) ==
  IF s.currentTarget = "null" THEN s
  ELSE LET id == streamIdFor(s, tick)
           p == Len(s.streamProcs) + 1
       IN [s EXCEPT !.streamProcs = Append(@, NewStreamProc(id, files, mode,
                                            tailCommand(s.impl, files, mode))),
                    !.logStreams = MapSet(@, id, [process |-> p, files |-> files,
                                                  mode |-> mode, active |-> TRUE])]

\* logs/stop, POST /api/logs/stop
stopStream(s, id) ==
  IF id \notin DOMAIN s.logStreams THEN s
  ELSE LET st == s.logStreams[id]
           s1 == IF s.impl = "server" \/ (st.active /\ st.process # NULL)
                 THEN Emit([s EXCEPT !.streamProcs[st.process].killed = TRUE],
                           StoppedEvent(id, "stopped"))
                 ELSE s
       IN [s1 EXCEPT !.logStreams = MapDelete(@, id)]

\* the reply of logs/stop for stream id in state s
stopReply(s, id) ==
  IF s.impl = "main" /\ id \notin DOMAIN s.logStreams THEN "StreamNotFound"
  ELSE "success"

\* childProcess.on('exit') of stream process p
streamExit(s, p, code) ==
  LET id == s.streamProcs[p].id
      reason == IF s.impl = "server" \/ code = "0" THEN "completed" ELSE "error"
  IN Emit([s EXCEPT !.logStreams = MapDelete(@, id)], StoppedEvent(id, reason))

\* childProcess.on('error') of stream process p; the server registers no
\* listener, so the 'error' event is thrown
streamError(s, p) ==
  LET id == s.streamProcs[p].id
  IN IF s.impl = "server" THEN Throw(s)
     ELSE Emit([s EXCEPT !.logStreams = MapDelete(@, id)], StoppedEvent(id, "error"))

\* trimmedLine.match(/^==>\s+(.+?)\s+<==$/)
isHeader(t) ==
  /\ Len(t) >= Len(Header(<<"f">>))
  /\ SubSeq(t, 1, 3) = <<"=","=",">">>
  /\ SubSeq(t, Len(t) - 2, Len(t)) = <<"<","=","=">>
  /\ t[4] \in WS
  /\ t[Len(t) - 3] \in WS

\* fileHeaderMatch[1]: greedy \s+, lazy (.+?), then \s+ up to "<=="
headerFile(t) ==
  LET mid == SubSeq(t, 4, Len(t) - 3)
  IN IF trim(mid) # <<>> THEN trim(mid) ELSE <<mid[Len(mid) - 1]>>

RECURSIVE forwardLinesMain(_, _, _)
\* main: lines.forEach of the stream stdout handler
forwardLinesMain(s, p, lines) ==
  IF lines = <<>> THEN s
  ELSE LET t == trim(Head(lines))
           s1 == IF t = <<>> THEN s
                 ELSE IF isHeader(t)
                 THEN [s EXCEPT !.streamProcs[p].currentFile = headerFile(t)]
                 ELSE Emit(s, LineEvent(s.streamProcs[p].id,
                                        s.streamProcs[p].currentFile, t))
       IN forwardLinesMain(s1, p, Tail(lines))

RECURSIVE forwardLinesServer(_, _, _)
\* server: fileLines.forEach of the stream stdout handler
forwardLinesServer(s, p, lines) ==
  IF lines = <<>> THEN s
  ELSE LET s1 == IF trim(Head(lines)) = <<>> THEN s
                 ELSE Emit(s, LineEvent(s.streamProcs[p].id,
                                        s.streamProcs[p].files[1], Head(lines)))
       IN forwardLinesServer(s1, p, Tail(lines))

\* childProcess.stdout.on('data') of stream process p
streamData(s, p, text) ==
  LET s0 == [s EXCEPT !.streamProcs[p].fed = @ \o text,
                      !.streamProcs[p].nfed = @ + 1]
  IN IF s.impl = "server" THEN forwardLinesServer(s0, p, split(text))
     ELSE LET pieces == split(s.streamProcs[p].buffer \o text)
              n == Len(pieces)
          IN forwardLinesMain([s0 EXCEPT !.streamProcs[p].buffer = pieces[n]],
                              p, SubSeq(pieces, 1, n - 1))

\* ---------------------------------------------------------------- actions
Op(name, arg, reply) == [op |-> name, arg |-> arg, reply |-> reply]

Done(s, name, arg, reply) ==
  Install([s EXCEPT !.lastOp = Op(name, arg, IF s.threw THEN "threw" ELSE reply)])

Init ==
  /\ impl \in Impls
  /\ currentTarget = "null"
  /\ rdeProcess = NULL
  /\ commandQueue = <<>>
  /\ isExecutingCommand = FALSE
  /\ commandOutputs = EmptyMap
  /\ commandCounter = 0
  /\ connectionResolve = NULL
  /\ welcomeBuffer = <<>>
  /\ procs = <<>>
  /\ cmds = <<>>
  /\ timers = {}
  /\ connects = <<>>
  /\ stdinLog = <<>>
  /\ emitted = <<>>
  /\ lastOp = [op |-> "init", arg |-> 0, reply |-> ""]
  /\ crashed = FALSE
  /\ nData = 0
  /\ logStreams = EmptyMap
  /\ streamProcs = <<>>
  /\ streamLog = <<>>
  /\ outputLog = <<>>

Connect ==
  /\ ~crashed
  /\ Len(connects) < MaxConnect
  /\ rdeProcess # NULL \/ Len(procs) < MaxProc
  /\ LET s == connect(St)
     IN Done(s, "connect", Len(s.connects), s.connects[Len(s.connects)])

ConnectTimeout(k) ==
  /\ ~crashed
  /\ Timer("connect", k) \in timers
  /\ LET s == connectTimeout([St EXCEPT !.timers = @ \ {Timer("connect", k)}], k)
     IN Done(s, "connectTimeout", k, s.connects[k])

Disconnect ==
  /\ ~crashed
  /\ Done(disconnect(St), "disconnect", 0, "success")

Execute(text) ==
  /\ ~crashed
  /\ commandCounter < MaxCmd
  /\ LET s == execute(St, text)
     IN Done(s, "execute",
             IF s.commandCounter = commandCounter THEN 0 ELSE s.commandCounter,
             IF s.commandCounter = commandCounter THEN "NotConnected"
             ELSE s.cmds[s.commandCounter].promise)

Stdout(p, text) ==
  /\ ~crashed
  /\ nData < MaxData
  /\ procs[p].st = "running"
  /\ Done(onStdout([St EXCEPT !.nData = @ + 1], text), "stdout", p, "")

\* rdeProcess.stdout.on('data') in the runs that cut a line in two
StdoutPiece(p, text) ==
  /\ ~crashed
  /\ nData < MaxPieces
  /\ procs[p].st = "running"
  /\ Done(onStdout([St EXCEPT !.nData = @ + 1], text), "stdout", p, "")

ProcExit(p) ==
  /\ ~crashed
  /\ procs[p].st = "running"
  /\ Done(onProcessGone([St EXCEPT !.procs[p].st = "exited"],
                        "RDE session closed", "disconnected"),
          "exit", p, "")

ProcError(p) ==
  /\ ~crashed
  /\ procs[p].st = "running"
  /\ Done(onProcessGone([St EXCEPT !.procs[p].st = "exited"],
                        "process error", "error"),
          "error", p, "")

HardTimeout(c) ==
  /\ ~crashed
  /\ Timer("hard", c) \in timers
  /\ Done(hardTimeout([St EXCEPT !.timers = @ \ {Timer("hard", c)}], c),
          "hardTimeout", c, "")

EarlyTimeout(c) ==
  /\ ~crashed
  /\ Timer("early", c) \in timers
  /\ Done(earlyComplete([St EXCEPT !.timers = @ \ {Timer("early", c)}], c),
          "earlyTimeout", c, "")

StartTail(files, mode, tick) ==
  /\ ~crashed
  /\ Len(streamProcs) < MaxStream
  /\ LET s == startTail(St, files, mode, tick)
     IN Done(s, "startTail",
             IF Len(s.streamProcs) = Len(streamProcs) THEN 0
             ELSE s.streamProcs[Len(s.streamProcs)].id,
             IF Len(s.streamProcs) = Len(streamProcs) THEN "NotConnected"
             ELSE "success")

\* logs/tail when the stream process cannot be spawned.  spawn() reports the
\* failure in one of two ways: it throws (sync), which the try/catch of the
\* main build turns into a failure reply and which the server build does not
\* catch, or it returns a child whose only event will be 'error'.
StartTailNoSpawn(files, mode, tick, sync) ==
  /\ ~crashed
  /\ Len(streamProcs) < MaxStream
  /\ LET s0 == startTail(St, files, mode, tick)
         n == Len(s0.streamProcs)
     IN IF n = Len(streamProcs) THEN Done(s0, "startTail", 0, "NotConnected")
        ELSE IF sync
        THEN Done(IF impl = "server" THEN Throw(St) ELSE St,
                  "startTail", 0, "SpawnFailure")
        ELSE Done([s0 EXCEPT !.streamProcs[n].st = "unspawned"],
                  "startTail", s0.streamProcs[n].id, "success")

StopStream(id) ==
  /\ ~crashed
  /\ Done(stopStream(St, id), "stopStream", id, stopReply(St, id))

StreamExit(p, code) ==
  /\ ~crashed
  /\ streamProcs[p].st = "running"
  /\ Done(streamExit([St EXCEPT !.streamProcs[p].st = "exited"], p, code),
          "streamExit", p, code)

StreamError(p) ==
  /\ ~crashed
  /\ streamProcs[p].st \in {"running", "unspawned"}
  /\ Done(streamError([St EXCEPT !.streamProcs[p].st = "exited"], p),
          "streamError", p, "")

StreamData(p, text) ==
  /\ ~crashed
  /\ streamProcs[p].st = "running"
  /\ streamProcs[p].nfed < MaxStreamData
  /\ Done(streamData(St, p, text), "streamData", p, "")

Next ==
  \/ Connect
  \/ Disconnect
  \/ \E k \in 1..MaxConnect : ConnectTimeout(k)
  \/ \E text \in CommandTexts : Execute(text)
  \/ \E p \in DOMAIN procs : \E text \in Chunks : Stdout(p, text)
  \/ \E p \in DOMAIN procs : ProcExit(p)
  \/ \E p \in DOMAIN procs : ProcError(p)
  \/ \E c \in DOMAIN cmds : HardTimeout(c)
  \/ \E c \in DOMAIN cmds : EarlyTimeout(c)

Spec == Init /\ [][Next]_vars

\* The session that stays silent after its greeting: the only data the
\* session process writes is the greeting, so no prompt line and no output
\* line ever completes a command (and no early timer is ever armed).
LiveNext ==
  \/ Connect
  \/ Disconnect
  \/ \E k \in 1..MaxConnect : ConnectTimeout(k)
  \/ Execute(CmdEcho)
  \/ \E p \in DOMAIN procs : Stdout(p, ChunkWelcome)
  \/ \E p \in DOMAIN procs : ProcExit(p)
  \/ \E c \in DOMAIN cmds : HardTimeout(c)

\* A pending setTimeout callback is eventually run by the event loop.
LiveSpec ==
  /\ Init
  /\ [][LiveNext]_vars
  /\ \A c \in 1..MaxCmd : WF_vars(HardTimeout(c))

\* The handshake alone: connect calls, session output cut in chunks, the wait
\* window and the loss of the process.
GreetNext ==
  \/ Connect
  \/ \E k \in 1..MaxConnect : ConnectTimeout(k)
  \/ \E p \in DOMAIN procs : \E text \in GreetChunks : Stdout(p, text)
  \/ \E p \in DOMAIN procs : ProcExit(p)

GreetSpec == Init /\ [][GreetNext]_vars

\* The log streams next to the session: the session is connected and torn
\* down, streams are started and stopped and their processes end.
LogNext ==
  \/ Connect
  \/ Disconnect
  \/ \E k \in 1..MaxConnect : ConnectTimeout(k)
  \/ \E p \in DOMAIN procs : Stdout(p, ChunkWelcome)
  \/ \E p \in DOMAIN procs : ProcExit(p)
  \/ \E tick \in BOOLEAN : StartTail(<<FileA, FileB>>, "follow", tick)
  \/ \E id \in 1..MaxStream : StopStream(id)
  \/ \E p \in DOMAIN streamProcs : \E code \in ExitCodes : StreamExit(p, code)
  \/ \E p \in DOMAIN streamProcs : StreamError(p)

LogSpec == Init /\ [][LogNext]_vars

\* The output of the log stream processes, cut in chunks.
TailNext ==
  \/ Connect
  \/ \E p \in DOMAIN procs : Stdout(p, ChunkWelcome)
  \/ \E files \in FileLists : \E mode \in Modes : \E tick \in BOOLEAN :
       StartTail(files, mode, tick)
  \/ \E p \in DOMAIN streamProcs : \E text \in TailChunks : StreamData(p, text)

TailSpec == Init /\ [][TailNext]_vars

\* A session that prints listings of five lines and no prompt.
EarlyNext ==
  \/ Connect
  \/ Disconnect
  \/ \E text \in CommandTexts : Execute(text)
  \/ \E p \in DOMAIN procs : \E text \in {ChunkWelcome, ChunkFive} : Stdout(p, text)
  \/ \E p \in DOMAIN procs : ProcExit(p)
  \/ \E c \in DOMAIN cmds : HardTimeout(c)
  \/ \E c \in DOMAIN cmds : EarlyTimeout(c)

EarlySpec == Init /\ [][EarlyNext]_vars

\* Log streams that are stopped while their processes still deliver output.
StopNext ==
  \/ Connect
  \/ \E p \in DOMAIN procs : Stdout(p, ChunkWelcome)
  \/ StartTail(<<FileA>>, "follow", TRUE)
  \/ \E id \in 1..MaxStream : StopStream(id)
  \/ \E p \in DOMAIN streamProcs : StreamExit(p, "0")
  \/ \E p \in DOMAIN streamProcs : StreamData(p, Ln(Line1))

StopSpec == Init /\ [][StopNext]_vars

\* The connect calls, their wait windows and the session process.
ConnectNext ==
  \/ Connect
  \/ Disconnect
  \/ \E k \in 1..MaxConnect : ConnectTimeout(k)
  \/ \E p \in DOMAIN procs : Stdout(p, ChunkWelcome)
  \/ \E p \in DOMAIN procs : Stdout(p, ChunkPrompt)
  \/ \E p \in DOMAIN procs : ProcExit(p)
  \/ \E p \in DOMAIN procs : ProcError(p)

\* The 15 s setTimeout callback of every connect call is eventually run.
ConnectSpec ==
  /\ Init
  /\ [][ConnectNext]_vars
  /\ \A k \in 1..MaxConnect : WF_vars(ConnectTimeout(k))

\* A session whose output arrives cut at any character.
PieceNext ==
  \/ Connect
  \/ \E text \in CommandTexts : Execute(text)
  \/ \E p \in DOMAIN procs : Stdout(p, ChunkWelcome)
  \/ \E p \in DOMAIN procs : \E text \in PieceChunks : StdoutPiece(p, text)
  \/ \E c \in DOMAIN cmds : HardTimeout(c)
  \/ \E c \in DOMAIN cmds : EarlyTimeout(c)

PieceSpec == Init /\ [][PieceNext]_vars

\* The start requests of the log streams, with the spawn of the stream
\* process succeeding or failing.
StartNext ==
  \/ Connect
  \/ \E p \in DOMAIN procs : Stdout(p, ChunkWelcome)
  \/ \E files \in StartLists : \E mode \in Modes : \E tick \in BOOLEAN :
       StartTail(files, mode, tick)
  \/ \E tick, sync \in BOOLEAN :
       StartTailNoSpawn(<<FileA, FileB>>, "follow", tick, sync)
  \/ \E id \in 1..MaxStream : StopStream(id)
  \/ \E p \in DOMAIN streamProcs : StreamError(p)

StartSpec == Init /\ [][StartNext]_vars

\* ------------------------------------------------------------ vocabulary
Connected == currentTarget # "null"

Connecting == currentTarget = "null" /\ rdeProcess # NULL /\ connectionResolve # NULL

\* Connected through process p, with no connect call waiting
ConnectedTo(p) == Connected /\ rdeProcess = p /\ connectionResolve = NULL

Settled(c) == cmds[c].state \in {"Completed", "Failed"}

\* the commands that were written to the input of process p and have no result
ActiveOn(p) == {c \in DOMAIN cmds : cmds[c].state = "Active" /\ cmds[c].proc = p}

StatusEmitted(es, st) == \E i \in DOMAIN es : es[i].ch = "rde/status" /\ es[i].state = st

\* ------------------------------------------------------------------ claims

\* C1: in every reachable state, every session process has at most one
\* Command that was written to its input and is still without a result.
C1_AtMostOneActive == \A p \in DOMAIN procs : Cardinality(ActiveOn(p)) <= 1

\* C1 witness: a Command is Active on the session while another one waits.
C1_Witness ==
  /\ rdeProcess # NULL
  /\ Cardinality(ActiveOn(rdeProcess)) = 1
  /\ Len(commandQueue) > 0
  /\ lastOp.op = "execute"

\* the commands that occupy the queue or the Active slot of the session
Pending == {commandQueue[i] : i \in DOMAIN commandQueue} \cup
           (IF rdeProcess # NULL /\ procs[rdeProcess].cur # NULL
            THEN {procs[rdeProcess].cur} ELSE {})

\* C2: Commands are activated in the order of their acceptance, a submit
\* made while Connected and busy is queued and never rejected, and a Command
\* becomes Active only after every Command accepted before it has completed
\* or failed.
C2_FifoActivation ==
  [][/\ \A i, j \in DOMAIN stdinLog' : i < j => stdinLog'[i].cmd < stdinLog'[j].cmd
     /\ (lastOp'.op = "execute" /\ Connected /\ isExecutingCommand) =>
          /\ commandQueue' = Append(commandQueue, commandCounter')
          /\ cmds'[commandCounter'].promise = "pending"
     /\ \A c \in DOMAIN cmds' :
          (cmds'[c].state = "Active" /\ (c \notin DOMAIN cmds \/ cmds[c].state # "Active"))
            => \A b \in 1..(c - 1) : cmds'[b].state \in {"Completed", "Failed"}]_vars

\* C3: a disconnect fails exactly the Commands that are Queued or Active at
\* that moment with a SessionClosed error, so none is left without a result.
C3_DisconnectFailsPending ==
  [][lastOp'.op = "disconnect" =>
       \A c \in DOMAIN cmds :
          IF c \in Pending
          THEN cmds'[c].state = "Failed" /\ cmds'[c].trigger = "SessionClosed"
          ELSE cmds'[c] = cmds[c]]_vars

\* C4: when the session process exits or errors while Connected, the Queued
\* Commands and the Active Command are failed with SessionClosed, the Session
\* leaves Connected and a status event is emitted.
C4_ExitFailsPending ==
  [][(lastOp'.op \in {"exit", "error"} /\ ConnectedTo(lastOp'.arg)) =>
       /\ \A c \in Pending :
            cmds'[c].state = "Failed" /\ cmds'[c].trigger = "SessionClosed"
       /\ currentTarget' = "null"
       /\ \E i \in DOMAIN emitted' : emitted'[i].ch = "rde/status"]_vars

\* C5: the result of a Command is delivered at most once: resolve/reject is
\* called at most once for it, and once it is Completed or Failed no prompt
\* line and no timer changes its state, its result or its trigger.
C5_DeliveredOnce ==
  [][\A c \in DOMAIN cmds' :
       /\ cmds'[c].settles <= 1
       /\ (c \in DOMAIN cmds /\ Settled(c)) => cmds'[c] = cmds[c]]_vars

\* C5 witness: the fallback timer of a Command fires after a prompt line or
\* the early policy completed that Command.
C5_Witness ==
  /\ lastOp.op = "hardTimeout"
  /\ lastOp.reply # "threw"
  /\ lastOp.arg \in DOMAIN cmds
  /\ cmds[lastOp.arg].trigger \in {"PromptMatch", "EarlyPolicy"}
  /\ cmds[lastOp.arg].settles = 1

\* command c holds the Active slot of the session
InSlot(c) == rdeProcess # NULL /\ procs[rdeProcess].cur = c

InQueue(c) == \E i \in DOMAIN commandQueue : commandQueue[i] = c

\* C6: while the Session stays Connected, the Command in the Active slot
\* eventually completes, output or no output, and every Queued Command
\* eventually leaves the queue and becomes Active.
C6_EventuallyCompletes ==
  \A c \in 1..MaxCmd :
    /\ (Connected /\ InSlot(c)) ~>
          ((c \in DOMAIN cmds /\ cmds[c].state = "Completed") \/ ~Connected)
    /\ (Connected /\ InQueue(c)) ~>
          ((c \in DOMAIN cmds /\ cmds[c].state # "Queued") \/ ~Connected)

\* C6 witness: the fallback timer completed a Command that had captured no
\* output, and the Command queued behind it became Active.
C6_Witness ==
  /\ lastOp.op = "hardTimeout"
  /\ Connected
  /\ \E c \in DOMAIN cmds :
        /\ cmds[c].state = "Completed"
        /\ cmds[c].trigger = "HardTimeout"
        /\ cmds[c].output = <<>>
        /\ c + 1 \in DOMAIN cmds
        /\ cmds[c + 1].state = "Active"

\* C7: a submit made while the Session is not Connected is rejected with a
\* not-connected error, changes neither the queue nor the Active slot and
\* writes nothing to the session input.
C7_SubmitNotConnected ==
  [][(lastOp'.op = "execute" /\ ~Connected) =>
       /\ lastOp'.reply = "NotConnected"
       /\ UNCHANGED <<commandQueue, isExecutingCommand, procs, stdinLog, cmds,
                      commandOutputs, timers>>]_vars

\* C7 witness: a submit was rejected while a session process existed
\* (Connecting), where executeInRDESession itself would have accepted it.
C7_Witness ==
  /\ lastOp.op = "execute"
  /\ lastOp.reply = "NotConnected"
  /\ rdeProcess # NULL
  /\ connectionResolve # NULL

\* C8: connect called while Connected is a no-op that returns success: no
\* process is spawned, the Session keeps its process and state, and the
\* Commands and LogStreams are unchanged.
C8_ConnectWhenConnected ==
  [][(lastOp'.op = "connect" /\ Connected /\ rdeProcess # NULL) =>
       /\ lastOp'.reply = "success"
       /\ UNCHANGED <<rdeProcess, procs, currentTarget, commandQueue,
                      isExecutingCommand, cmds, logStreams, streamProcs,
                      connectionResolve, timers>>]_vars

\* C9: a connect made while another connect waits for the handshake spawns
\* no second session process.
C9_NoSecondSpawn ==
  [][(lastOp'.op = "connect" /\ Connecting) =>
       procs' = procs /\ rdeProcess' = rdeProcess]_vars

\* C9 witness: two connect calls wait on the one session process.
C9_Witness ==
  /\ lastOp.op = "connect"
  /\ Len(connects) = 2
  /\ connects[1] = "waiting" /\ connects[2] = "waiting"
  /\ Len(procs) = 1 /\ rdeProcess = 1

\* no session process is left running without having been killed
TornDown ==
  /\ rdeProcess = NULL
  /\ \A p \in DOMAIN procs :
       procs[p].st = "running" => procs[p].killed /\ procs[p].stdinEnded

\* C10: when the wait window of a connect expires without the greeting, the
\* connect reports failure, the session process is torn down (input closed,
\* process killed, handle cleared), the Session is not Connected and a
\* status event with state error is broadcast.
C10_ConnectTimeout ==
  [][(lastOp'.op = "connectTimeout" /\ connectionResolve = lastOp'.arg) =>
       /\ connects'[lastOp'.arg] = "failure"
       /\ TornDown'
       /\ ~Connected'
       /\ StatusEmitted(emitted', "error")]_vars

\* C11: when the session process exits or errors while a connect call waits
\* for the handshake, that connect call does not report success and the
\* Session does not become Connected.
C11_ExitWhileConnecting ==
  [][(lastOp'.op \in {"exit", "error"} /\ Connecting /\ rdeProcess = lastOp'.arg) =>
       /\ connects'[connectionResolve] # "success"
       /\ ~Connected']_vars

\* the Session has no process handle, no queued and no Active Command, and
\* is Disconnected
Cleared ==
  /\ rdeProcess = NULL
  /\ commandQueue = <<>>
  /\ ~isExecutingCommand
  /\ currentTarget = "null"

\* C13: disconnect succeeds in every state and leaves the Session without a
\* process handle, with an empty queue, no Active Command and Disconnected;
\* a disconnect made in that state succeeds and leaves it unchanged.
C13_DisconnectIdempotent ==
  [][lastOp'.op = "disconnect" =>
       /\ lastOp'.reply = "success"
       /\ Cleared'
       /\ Cleared => UNCHANGED <<rdeProcess, procs, commandQueue,
                                 isExecutingCommand, currentTarget, cmds,
                                 commandOutputs, stdinLog>>]_vars

\* C13 witness: a disconnect tore down a session that had a Command Active
\* and another one Queued.
C13_Witness ==
  /\ lastOp.op = "disconnect"
  /\ Cleared
  /\ \E p \in DOMAIN procs : procs[p].killed /\ procs[p].stdinEnded
  /\ \E c \in DOMAIN cmds : cmds[c].state = "Queued"

\* C12: when a chunk arrives from the session process while a connect call
\* waits and the text received since the connect (the buffer plus the chunk)
\* contains the greeting token in any letter case, whole or cut across
\* chunks, the connect call reports success and the Session is Connected.
C12_GreetingDetected ==
  [][\A p \in DOMAIN procs : \A text \in GreetChunks :
       (/\ Stdout(p, text)
        /\ rdeProcess = p
        /\ connectionResolve # NULL
        /\ includes(toLowerCase(welcomeBuffer \o text), WelcomeToken))
       => (connects'[connectionResolve] = "success" /\ Connected')]_vars

\* the stream-line events published for stream id, in order
LinesOf(id) ==
  LET T(e) == e.ch = "logs/line" /\ e.id = id
  IN SelectSeq(streamLog, T)

ActiveStreams == {id \in DOMAIN logStreams : logStreams[id].active}

\* C14: a disconnect kills the process of every LogStream that is active at
\* that moment and emits a stream-stopped event with reason disconnected for
\* it, and afterwards no LogStream is registered as active.
C14_DisconnectCascade ==
  [][lastOp'.op = "disconnect" =>
       /\ \A id \in ActiveStreams :
            /\ streamProcs'[logStreams[id].process].killed
            /\ \E i \in DOMAIN emitted' :
                  emitted'[i] = StoppedEvent(id, "disconnected")
       /\ ActiveStreams' = {}]_vars

\* C15: no LogStream is active while the Session is not Connected.
C15_NoStreamWhenDisconnected == ~Connected => ActiveStreams = {}

\* C16: stopping an active LogStream kills its process and emits a
\* stream-stopped event with reason stopped, and no other stream-stopped
\* event for that streamId follows in the rest of the run.
C16_StoppedOnce ==
  [][/\ (lastOp'.op = "stopStream" /\ lastOp'.arg \in ActiveStreams) =>
          /\ streamProcs'[logStreams[lastOp'.arg].process].killed
          /\ emitted' = <<StoppedEvent(lastOp'.arg, "stopped")>>
     /\ \A i, j \in DOMAIN streamLog' :
          (/\ i < j
           /\ streamLog'[i].ch = "logs/stopped"
           /\ streamLog'[i].state = "stopped"
           /\ streamLog'[j].ch = "logs/stopped")
          => streamLog'[j].id # streamLog'[i].id]_vars

\* C17: startTail made while the Session is not Connected is rejected with
\* a not-connected error, spawns no process, registers no stream and emits
\* no event.
C17_StartTailNotConnected ==
  [][(lastOp'.op = "startTail" /\ ~Connected) =>
       /\ lastOp'.reply = "NotConnected"
       /\ emitted' = <<>>
       /\ UNCHANGED <<streamProcs, logStreams, streamLog>>]_vars

\* C17 witness: a startTail was rejected while a session process existed
\* and a stream started earlier was still registered.
C17_Witness ==
  /\ lastOp.op = "startTail"
  /\ lastOp.reply = "NotConnected"
  /\ rdeProcess # NULL
  /\ Len(streamProcs) = 1

\* C18: stopStream with a streamId that is not registered answers
\* StreamNotFound, emits no event and leaves the streams and the Session
\* unchanged.
C18_StopUnknownStream ==
  [][(lastOp'.op = "stopStream" /\ lastOp'.arg \notin DOMAIN logStreams) =>
       /\ lastOp'.reply = "StreamNotFound"
       /\ emitted' = <<>>
       /\ UNCHANGED <<streamProcs, logStreams, streamLog, rdeProcess, procs,
                      currentTarget, commandQueue, isExecutingCommand>>]_vars

\* C19: when the process of a LogStream ends on its own, one stream-stopped
\* event is emitted, with reason completed for exit code 0 and error for a
\* non-zero code or a signal, and the stream is removed from the registry.
C19_ExitReason ==
  [][(lastOp'.op = "streamExit" /\ ~streamProcs[lastOp'.arg].killed) =>
       /\ emitted' = <<StoppedEvent(streamProcs[lastOp'.arg].id,
                                     IF lastOp'.reply = "0" THEN "completed"
                                     ELSE "error")>>
       /\ streamProcs[lastOp'.arg].id \notin DOMAIN logStreams']_vars

RECURSIVE Attributed(_, _)
\* the (file, line) pairs the claim expects for a sequence of complete lines,
\* cur being the file named by the most recent header
Attributed(lines, cur) ==
  IF lines = <<>> THEN <<>>
  ELSE LET t == trim(Head(lines))
       IN IF t = <<>> THEN Attributed(Tail(lines), cur)
          ELSE IF isHeader(t) THEN Attributed(Tail(lines), headerFile(t))
          ELSE <<[file |-> cur, line |-> t]>> \o Attributed(Tail(lines), cur)

\* the lines of the text fed to stream process p whose terminator arrived
CompleteLines(p) ==
  LET pieces == split(streamProcs[p].fed)
  IN SubSeq(pieces, 1, Len(pieces) - 1)

\* C20: the stream-line events of a LogStream are exactly its content lines
\* in their original order, each with the file named by the most recent
\* header line before it; header lines are not forwarded (header(A), 3
\* lines, header(B), 2 lines gives 3 events for A, then 2 for B).
C20_LineAttribution ==
  \A p \in DOMAIN streamProcs :
    (\A q \in DOMAIN streamProcs : q # p => streamProcs[q].id # streamProcs[p].id)
    => LET ev == LinesOf(streamProcs[p].id)
       IN [i \in DOMAIN ev |-> [file |-> ev[i].state, line |-> ev[i].text]]
            = Attributed(CompleteLines(p), streamProcs[p].files[1])

\* C21: a line of a LogStream is emitted only once its terminator has been
\* received, as one event with the whole text, so two streams fed the same
\* output in different chunkings emit the same line sequence.
C21_ChunkingInvariant ==
  \A p \in DOMAIN streamProcs :
    (\A q \in DOMAIN streamProcs : q # p => streamProcs[q].id # streamProcs[p].id)
    => LET ev == LinesOf(streamProcs[p].id)
           done == CompleteLines(p)
       IN /\ \A i \in DOMAIN ev :
               \E j \in DOMAIN done : trim(ev[i].text) = trim(done[j])
          /\ \A q \in DOMAIN streamProcs :
               (/\ streamProcs[q].fed = streamProcs[p].fed
                /\ streamProcs[q].files = streamProcs[p].files
                /\ streamProcs[q].buffer = streamProcs[p].buffer)
               => LET eq == LinesOf(streamProcs[q].id)
                  IN [i \in DOMAIN ev |-> <<ev[i].state, ev[i].text>>]
                       = [i \in DOMAIN eq |-> <<eq[i].state, eq[i].text>>]

RECURSIVE Words(_)
\* the words of a command line, separated by single spaces
Words(t) ==
  IF \A i \in 1..Len(t) : t[i] # " " THEN <<t>>
  ELSE LET k == CHOOSE i \in 1..Len(t) :
                  t[i] = " " /\ \A j \in 1..(i - 1) : t[j] # " "
       IN <<SubSeq(t, 1, k - 1)>> \o Words(SubSeq(t, k + 1, Len(t)))

\* C22: a Follow start with 10 or more files writes the one glob read, and a
\* Follow start with fewer files writes a read naming exactly the requested
\* files in the requested order.
C22_GlobForManyFiles ==
  \A p \in DOMAIN streamProcs :
    LET sp == streamProcs[p]
    IN sp.mode = "follow"
       => IF Len(sp.files) >= 10
          THEN sp.stdin = GlobRead \o <<"\n">>
          ELSE Words(SubSeq(sp.stdin, 1, Len(sp.stdin) - 1))
                 = <<<<"t","a","i","l">>, <<"-","f">>>> \o sp.files

RECURSIVE ContentBefore(_)
\* the content lines that precede the first prompt line of lines, trimmed
ContentBefore(lines) ==
  IF lines = <<>> \/ isPrompt(Head(lines)) THEN <<>>
  ELSE (IF trim(Head(lines)) # <<>> THEN <<trim(Head(lines))>> ELSE <<>>)
         \o ContentBefore(Tail(lines))

HasPrompt(text) == \E i \in DOMAIN split(text) : isPrompt(split(text)[i])

\* C23: a chunk of session output that holds a prompt line, arriving while a
\* Command is Active, completes that Command in the same step through
\* PromptMatch with the content captured before the prompt; no prompt line
\* is ever stored in an output or published as a command output event.
C23_PromptCompletes ==
  [][/\ \A p \in DOMAIN procs : \A text \in Chunks :
          (/\ Stdout(p, text)
           /\ rdeProcess # NULL
           /\ procs[rdeProcess].cur # NULL
           /\ HasPrompt(text))
          => LET c == procs[rdeProcess].cur
                 had == IF c \in DOMAIN commandOutputs
                        THEN commandOutputs[c] ELSE <<>>
             IN /\ cmds'[c].state = "Completed"
                /\ cmds'[c].trigger = "PromptMatch"
                /\ cmds'[c].output = join(had \o ContentBefore(split(text)))
     /\ \A i \in DOMAIN emitted' :
          emitted'[i].ch = "command/output" => ~isPrompt(emitted'[i].text)
     /\ \A c \in DOMAIN commandOutputs' : \A i \in DOMAIN commandOutputs'[c] :
          ~isPrompt(commandOutputs'[c][i])
     /\ \A c \in DOMAIN cmds' : \A i \in DOMAIN split(cmds'[c].output) :
          ~isPrompt(split(cmds'[c].output)[i])]_vars

\* C23 witness: the session printed "ok" and a prompt line; the Active Command
\* completed through PromptMatch with output "ok".
C23_Witness ==
  /\ lastOp.op = "stdout"
  /\ \E c \in DOMAIN cmds :
       /\ cmds[c].state = "Completed"
       /\ cmds[c].trigger = "PromptMatch"
       /\ cmds[c].output = <<"o","k">>
       /\ \E i \in DOMAIN emitted : emitted[i] = OutputEvent(c, <<"o","k">>)

\* the texts of the command output events published with id c, in order
RECURSIVE PublishedIn(_, _)
PublishedIn(log, c) ==
  IF log = <<>> THEN <<>>
  ELSE (IF Head(log).id = c THEN <<Head(log).text>> ELSE <<>>)
         \o PublishedIn(Tail(log), c)

\* C24: the output in the result of a completed Command is the newline-join
\* of exactly the lines published as command output events with its id, in
\* the order of publication.
C24_OutputIsStreamed ==
  \A c \in DOMAIN cmds :
    cmds[c].state = "Completed" => cmds[c].output = join(PublishedIn(outputLog, c))

\* C24 witness: a Command completed with a line in its output.
C24_Witness ==
  \E c \in DOMAIN cmds :
    /\ cmds[c].state = "Completed"
    /\ cmds[c].output # <<>>
    /\ PublishedIn(outputLog, c) # <<>>

\* C25 as claimed: a Command that matches the early-completion pattern and
\* got five content lines and no prompt line completes through EarlyPolicy,
\* never through the hard timeout, with the five lines in its output.
C25_EarlyPolicyClaimed ==
  \A c \in DOMAIN cmds :
    (/\ cmds[c].state = "Completed"
     /\ includes(cmds[c].text, StatusToken)
     /\ PublishedIn(outputLog, c) = FiveLines)
    => /\ cmds[c].trigger = "EarlyPolicy"
       /\ cmds[c].output = join(FiveLines)

\* C25: when the grace window of a Command expires while the Command still
\* holds the Active slot, the Command completes in that step through
\* EarlyPolicy with every line captured so far in its output; the window is
\* opened only for a Command that matches the early-completion pattern.
C25_EarlyPolicy ==
  [][\A c \in DOMAIN cmds :
       /\ (lastOp'.op = "earlyTimeout" /\ lastOp'.arg = c /\ InSlot(c))
          => /\ cmds'[c].state = "Completed"
             /\ cmds'[c].trigger = "EarlyPolicy"
             /\ cmds'[c].output = join(PublishedIn(outputLog, c))
             /\ outputLog' = outputLog
       /\ Timer("early", c) \in timers' => includes(cmds[c].text, StatusToken)]_vars

\* C25 witness: five lines arrived for a status Command, its grace window
\* expired, and it completed through EarlyPolicy with the five lines.
C25_Witness ==
  /\ lastOp.op = "earlyTimeout"
  /\ \E c \in DOMAIN cmds :
       /\ lastOp.arg = c
       /\ includes(cmds[c].text, StatusToken)
       /\ cmds[c].state = "Completed"
       /\ cmds[c].trigger = "EarlyPolicy"
       /\ cmds[c].output = join(FiveLines)

C27_TimersCancelled ==
  \A t \in timers :
    t.kind \in {"hard", "early", "output"} => ~Settled(t.id)

\* C28: a timer of Command X that fires while a different Command Y holds the
\* Active slot leaves Y as it was: its record, its captured lines, its place in
\* the slot and its own timers, also when Y was activated on a later session.
C28_StaleTimerHarmless ==
  [][\A x, y \in DOMAIN cmds :
       (/\ lastOp'.op \in {"hardTimeout", "earlyTimeout"}
        /\ lastOp'.arg = x
        /\ y # x
        /\ InSlot(y))
       => /\ cmds'[y] = cmds[y]
          /\ rdeProcess' = rdeProcess
          /\ procs'[rdeProcess].cur = y
          /\ isExecutingCommand' = isExecutingCommand
          /\ commandOutputs' = commandOutputs
          /\ commandQueue' = commandQueue
          /\ \A t \in timers : t.id = y /\ t.kind # "connect" => t \in timers']_vars

\* C28 witness: the fallback timer of a Command of an earlier session fired
\* while a Command of the current session held the Active slot.
C28_Witness ==
  /\ lastOp.op = "hardTimeout"
  /\ lastOp.reply # "threw"
  /\ \E y \in DOMAIN cmds :
       /\ y # lastOp.arg
       /\ InSlot(y)
       /\ cmds[y].state = "Active"
       /\ cmds[y].proc # cmds[lastOp.arg].proc

\* the stream processes the registry holds as active
RegisteredIn(reg) == {reg[id].process : id \in {i \in DOMAIN reg : reg[i].active}}

\* C29: a start or a stop of a LogStream, or the exit of its process, leaves
\* every other stream process, its place in the registry, the Session, the
\* command queue and the Active Command as they were.
C29_StreamsIndependent ==
  [][lastOp'.op \in {"startTail", "stopStream", "streamExit"}
     => LET own == IF lastOp'.op = "startTail" THEN Len(streamProcs) + 1
                   ELSE IF lastOp'.op = "streamExit" THEN lastOp'.arg
                   ELSE IF lastOp'.arg \in DOMAIN logStreams
                   THEN logStreams[lastOp'.arg].process
                   ELSE NULL
        IN /\ \A q \in DOMAIN streamProcs :
                q # own => /\ streamProcs'[q] = streamProcs[q]
                           /\ (q \in RegisteredIn(logStreams')
                                 <=> q \in RegisteredIn(logStreams))
           /\ UNCHANGED <<currentTarget, rdeProcess, procs, commandQueue,
                          isExecutingCommand, cmds, commandOutputs,
                          connectionResolve, timers>>]_vars

\* C30: a startTail call whose stream process cannot be started answers its
\* caller with a SpawnFailure and registers no stream.
C30_SpawnFailureReported ==
  [][\A tick, sync \in BOOLEAN :
       (StartTailNoSpawn(<<FileA, FileB>>, "follow", tick, sync) /\ Connected)
       => /\ lastOp'.reply = "SpawnFailure"
          /\ logStreams' = logStreams]_vars

\* C31: the result of every completed Command carries exit code 0, whatever
\* its trigger and whatever was captured.
C31_ExitCodeZero ==
  \A c \in DOMAIN cmds :
    cmds[c].state = "Completed"
    => /\ cmds[c].exitCode = 0
       /\ cmds[c].trigger \in {"PromptMatch", "EarlyPolicy", "HardTimeout"}

\* C31 witness: one Command completed with output and another, through the
\* hard timeout, with none.
C31_Witness ==
  \E c, d \in DOMAIN cmds :
    /\ cmds[c].state = "Completed" /\ cmds[c].output # <<>>
    /\ cmds[d].state = "Completed" /\ cmds[d].output = <<>>
    /\ cmds[d].trigger = "HardTimeout"

\* C32: the grace window of a Command is started at most once, in the step
\* that captures its first content line, and only for a Command that matches
\* the early-completion pattern; the first content line of a matching Active
\* Command does start it.
C32_GraceWindowOnce ==
  [][\A c \in DOMAIN cmds' :
       LET match == includes(cmds'[c].text, StatusToken)
           before == IF c \in DOMAIN cmds THEN PublishedIn(outputLog, c) ELSE <<>>
           after == PublishedIn(outputLog', c)
           starts == IF c \in DOMAIN cmds THEN cmds[c].graceStarts ELSE 0
       IN /\ cmds'[c].graceStarts <= 1
          /\ ~match => cmds'[c].graceStarts = 0 /\ Timer("early", c) \notin timers'
          /\ cmds'[c].graceStarts > starts => before = <<>> /\ after # <<>>
          /\ (c \in DOMAIN cmds /\ InSlot(c) /\ match /\ before = <<>> /\ after # <<>>)
             => cmds'[c].graceStarts = 1]_vars

\* C32 witness: five content lines were captured for an Active Command that
\* matches the pattern; its grace window was started once and is pending.
C32_Witness ==
  /\ lastOp.op = "stdout"
  /\ \E c \in DOMAIN cmds :
       /\ InSlot(c)
       /\ includes(cmds[c].text, StatusToken)
       /\ commandOutputs[c] = FiveLines
       /\ cmds[c].graceStarts = 1
       /\ Timer("early", c) \in timers

\* the number of prompt lines in lines
PromptCount(lines) == Cardinality({i \in DOMAIN lines : isPrompt(lines[i])})

\* C33: the lines captured for a Command that a prompt completed are the
\* content lines of the session output received while it was Active, however
\* that output was cut in chunks (for output that holds the one prompt line
\* that completed the Command).
C33_SessionChunkingInvariant ==
  \A c \in DOMAIN cmds :
    (/\ cmds[c].state = "Completed"
     /\ cmds[c].trigger = "PromptMatch"
     /\ PromptCount(split(cmds[c].heard)) = 1)
    => cmds[c].output = join(ContentBefore(split(cmds[c].heard)))

\* C34: the streamId a successful startTail returns is the id of no stream
\* registered at that moment, and every stream process the registry held
\* before the call is still held after it.
C34_StreamIdUnique ==
  [][(lastOp'.op = "startTail" /\ lastOp'.reply = "success")
     => /\ lastOp'.arg \notin DOMAIN logStreams
        /\ RegisteredIn(logStreams) \subseteq RegisteredIn(logStreams')]_vars

\* C35: whenever the Session is Connected, the session process handle is set
\* and names a process that has not exited.
C35_ConnectedHasProcess ==
  Connected => /\ rdeProcess # NULL
               /\ procs[rdeProcess].st = "running"

\* C36: the exit or error notification of a killed process that is no longer
\* the session process leaves the current Session as it was: its process
\* handle, its connection state, its queue, its Active Command and every
\* Command record.
C36_LateExitHarmless ==
  [][(/\ lastOp'.op \in {"exit", "error"}
      /\ rdeProcess # NULL
      /\ lastOp'.arg # rdeProcess
      /\ procs[lastOp'.arg].killed)
     => /\ rdeProcess' = rdeProcess
        /\ currentTarget' = currentTarget
        /\ commandQueue' = commandQueue
        /\ isExecutingCommand' = isExecutingCommand
        /\ procs'[rdeProcess].cur = procs[rdeProcess].cur
        /\ commandOutputs' = commandOutputs
        /\ cmds' = cmds]_vars

\* C37: every connect call that waits for the greeting eventually returns a
\* success or a failure to its caller.
C37_ConnectReturns ==
  \A k \in 1..MaxConnect :
    (IF k \in DOMAIN connects THEN connects[k] = "waiting" ELSE FALSE)
      ~> (IF k \in DOMAIN connects THEN connects[k] # "waiting" ELSE FALSE)

\* C38: in every state between two events, a non-empty command queue comes
\* with a Command in the Active slot.
C38_QueueImpliesActive ==
  Len(commandQueue) > 0
  => /\ rdeProcess # NULL
     /\ procs[rdeProcess].cur # NULL
     /\ cmds[procs[rdeProcess].cur].state = "Active"
     /\ isExecutingCommand

\* C38 witness: session output or a timer was handled while one Command was
\* Active and another one waited in the queue.
C38_Witness ==
  /\ lastOp.op \in {"stdout", "hardTimeout", "earlyTimeout"}
  /\ lastOp.reply # "threw"
  /\ Len(commandQueue) > 0
  /\ rdeProcess # NULL
  /\ procs[rdeProcess].cur # NULL

\* C39: among the events published for the log streams, no stream-line event
\* of a streamId comes after a stream-stopped event of that streamId.
C39_NoLineAfterStopped ==
  \A i, j \in DOMAIN streamLog :
    (/\ i < j
     /\ streamLog[i].ch = "logs/stopped"
     /\ streamLog[j].ch = "logs/line")
    => streamLog[j].id # streamLog[i].id

\* C40: a chunk of session output adds lines only to the output of the
\* Command that held the Active slot when the chunk arrived, and a prompt line
\* in it completes only that Command.
C40_ChunkBelongsToActive ==
  [][lastOp'.op = "stdout"
     => \A d \in DOMAIN cmds :
          ~InSlot(d)
          => /\ PublishedIn(outputLog', d) = PublishedIn(outputLog, d)
             /\ cmds'[d].state = "Completed" => cmds[d].state = "Completed"]_vars

====
